---- MODULE Spec2Model ----
(***************************************************************************)
(* Model of cronk (src/src/lib.rs): an Expression is seeded from the local *)
(* clock into a Schedule; Schedule::next advances a candidate date-time by *)
(* ripple carry through one ticker per field until the calendar and the    *)
(* weekday constraint accept it.                                           *)
(*                                                                         *)
(* One loop iteration of Schedule::next is one step (Iterate), because the *)
(* loop has no iteration cap and need not terminate.  chrono is modelled   *)
(* by the proleptic Gregorian calendar in a fixed-offset local zone, so    *)
(* Local.ymd_opt is LocalResult::Single exactly for the existing dates.    *)
(***************************************************************************)
EXTENDS Integers, Sequences, FiniteSets, TLC

VARIABLES
    expr,       \* the Expression the Schedule was built from (consumed input)
    local,      \* Local::now() as read once by Expression::into_schedule
    today,      \* Local::today() as read by the running loop (the wall clock's date)
    schedule,   \* the Schedule: current, increment_minute.._month, dow
    pc,         \* "idle": the caller holds the Schedule; "loop": inside Schedule::next
    result,     \* the DateTime returned by the latest completed call
    calls,      \* number of completed calls of Schedule::next
    ticker,     \* a Value Ticker (Increment) driven on its own
    ticks,      \* number of calls of next made on ticker
    yielded,    \* the pair returned by the latest call on ticker
    probe       \* a Weekday and a date handed to Weekday::is_valid, and its answer

vars == <<expr, local, today, schedule, pc, result, calls, ticker, ticks, yielded, probe>>

schedVars == <<expr, local, today, schedule, pc, result, calls>>
tickVars == <<ticker, ticks, yielded, probe>>

----------------------------------------------------------------------------
(* Bounds of the model *)

MaxCalls == 6          \* completed calls of Schedule::next per Schedule
MaxYear == 2027        \* the loop is followed while the candidate year is <= MaxYear
MaxClockDays == 1      \* days the wall clock may advance past the seeding day
MaxTicks == 7          \* calls made on a ticker driven on its own
MaxNth == 6            \* the largest n of Nth(n) handed to Weekday::is_valid

----------------------------------------------------------------------------
(* Field<T>, lib.rs 21-43 *)

NoField == [kind |-> "None", x |-> 0, set |-> <<>>, min |-> 0, max |-> 0]
Single(x) == [kind |-> "Single", x |-> x, set |-> <<>>, min |-> 0, max |-> 0]
Multiple(set) == [kind |-> "Multiple", x |-> 0, set |-> set, min |-> 0, max |-> 0]
Range(min, max) == [kind |-> "Range", x |-> 0, set |-> <<>>, min |-> min, max |-> max]

\* the largest u8
U8Max == 255

\* Ticker::increment for u8: self + 1 leaves the u8 range at 255, where a
\* build with overflow checks panics and a build without them wraps to 0
overflows(x) == x + 1 > U8Max
increment(x) == (x + 1) % (U8Max + 1)

\* Field::seed
seed(f) ==
    CASE f.kind = "Single" -> f.x
      [] f.kind = "Multiple" -> f.set[1]
      [] f.kind = "Range" -> f.min

----------------------------------------------------------------------------
(* Increment<T>, SetTicker<T>, RangeTicker<T>, lib.rs 236-322 *)

NoTicker == [kind |-> "None", x |-> 0, idx |-> 0, set |-> <<>>,
             min |-> 0, max |-> 0, current |-> 0]

SetTicker_new(set) == [NoTicker EXCEPT !.kind = "Multiple", !.idx = 0, !.set = set]

RangeTicker_with_current(min, max, current) ==
    [NoTicker EXCEPT !.kind = "Range", !.min = min, !.max = max, !.current = current]

RangeTicker_new(min, max) == RangeTicker_with_current(min, max, min)

\* Field::into_increment
into_increment(f) ==
    CASE f.kind = "Single" -> [NoTicker EXCEPT !.kind = "Single", !.x = f.x]
      [] f.kind = "Multiple" -> SetTicker_new(f.set)
      [] f.kind = "Range" -> RangeTicker_new(f.min, f.max)

\* What a call of Iterator::next leaves behind: the Option's tag, the pair
\* (value, must_increment) and the ticker after the call.
Yield(some, value, carry, t) ==
    [some |-> some, value |-> value, carry |-> carry, ticker |-> t, overflow |-> FALSE]

\* the same for a call whose cursor increment left the u8 range
Overflowing(y) == [y EXCEPT !.overflow = TRUE]

\* Vec::get with the 0-based index i
VecHas(set, i) == i >= 0 /\ i < Len(set)
VecGet(set, i) == set[i + 1]

\* SetTicker::next: with idx = 0 the cursor is left where it is.
SetTicker_next(t) ==
    IF t.idx = 0
    THEN IF VecHas(t.set, 0)
         THEN Yield(TRUE, VecGet(t.set, 0), FALSE, t)
         ELSE Yield(FALSE, 0, FALSE, t)
    ELSE IF VecHas(t.set, t.idx)
         THEN Yield(TRUE, VecGet(t.set, t.idx), FALSE, [t EXCEPT !.idx = t.idx + 1])
         ELSE IF VecHas(t.set, 0)
              THEN Yield(TRUE, VecGet(t.set, 0), TRUE, [t EXCEPT !.idx = 1])
              ELSE Yield(FALSE, 0, FALSE, [t EXCEPT !.idx = 1])

\* RangeTicker::next
RangeTicker_next(t) ==
    IF t.current >= t.min /\ t.current <= t.max
    THEN LET y == Yield(TRUE, t.current, FALSE,
                        [t EXCEPT !.current = increment(t.current)])
         IN  IF overflows(t.current) THEN Overflowing(y) ELSE y
    ELSE LET y == Yield(TRUE, t.min, TRUE, [t EXCEPT !.current = increment(t.min)])
         IN  IF overflows(t.min) THEN Overflowing(y) ELSE y

\* Increment::next
Increment_next(t) ==
    CASE t.kind = "Single" -> Yield(TRUE, t.x, TRUE, t)
      [] t.kind = "Multiple" -> SetTicker_next(t)
      [] t.kind = "Range" -> RangeTicker_next(t)

----------------------------------------------------------------------------
(* The calendar authority (chrono): proleptic Gregorian dates *)

IsLeapYear(y) == (y % 4 = 0 /\ y % 100 # 0) \/ y % 400 = 0

DaysInMonth(y, m) ==
    IF m = 2 THEN (IF IsLeapYear(y) THEN 29 ELSE 28)
    ELSE IF m \in {4, 6, 9, 11} THEN 30 ELSE 31

\* Local.ymd_opt(y, m, d) is LocalResult::Single
ymd_opt(y, m, d) == m \in 1..12 /\ d >= 1 /\ d <= DaysInMonth(y, m)

DaysBeforeMonth(y, m) ==
    <<0, 31, 59, 90, 120, 151, 181, 212, 243, 273, 304, 334>>[m]
        + (IF m > 2 /\ IsLeapYear(y) THEN 1 ELSE 0)

\* Datelike::num_days_from_ce: 1 for January 1 of year 1
num_days_from_ce(y, m, d) ==
    365 * (y - 1) + ((y - 1) \div 4) - ((y - 1) \div 100) + ((y - 1) \div 400)
        + DaysBeforeMonth(y, m) + d

\* date.weekday().num_days_from_sunday(): 0 = Sunday .. 6 = Saturday
num_days_from_sunday(y, m, d) == num_days_from_ce(y, m, d) % 7

Date(y, m, d) == [year |-> y, month |-> m, day |-> d]

\* Date comparison: a >= b
DateGe(a, b) ==
    num_days_from_ce(a.year, a.month, a.day) >= num_days_from_ce(b.year, b.month, b.day)

\* The day after a date
Tomorrow(a) ==
    IF a.day < DaysInMonth(a.year, a.month) THEN [a EXCEPT !.day = a.day + 1]
    ELSE IF a.month < 12 THEN [a EXCEPT !.day = 1, !.month = a.month + 1]
    ELSE Date(a.year + 1, 1, 1)

----------------------------------------------------------------------------
(* Weekday, lib.rs 45-69 *)

NoWeekday == [present |-> FALSE, field |-> NoField, nth |-> 0]
\* nth = 0 stands for None, n > 0 for Some(Nth(n))
Weekday(field, nth) == [present |-> TRUE, field |-> field, nth |-> nth]

SeqContains(set, v) == \E i \in 1..Len(set) : set[i] = v

\* a slip: the week index taken as day / 7 + 1 for every day
is_valid_floor(w, date) ==
    LET day_of_week == num_days_from_sunday(date.year, date.month, date.day)
        is_correct_day ==
            CASE w.field.kind = "Single" -> w.field.x = day_of_week
              [] w.field.kind = "Multiple" -> SeqContains(w.field.set, day_of_week)
              [] w.field.kind = "Range" ->
                    w.field.min <= day_of_week /\ w.field.max >= day_of_week
    IN  IF w.nth = 0 THEN is_correct_day
        ELSE is_correct_day /\ w.nth = (date.day \div 7) + 1

\* a slip: the bounds of a Range taken as exclusive
is_valid_open(w, date) ==
    LET day_of_week == num_days_from_sunday(date.year, date.month, date.day)
        is_correct_day ==
            CASE w.field.kind = "Single" -> w.field.x = day_of_week
              [] w.field.kind = "Multiple" -> SeqContains(w.field.set, day_of_week)
              [] w.field.kind = "Range" ->
                    w.field.min < day_of_week /\ w.field.max > day_of_week
    IN  IF w.nth = 0 THEN is_correct_day
        ELSE IF date.day % 7 = 0
             THEN is_correct_day /\ w.nth = date.day \div 7
             ELSE is_correct_day /\ w.nth = (date.day \div 7) + 1

\* Weekday::is_valid
is_valid(w, date) ==
    LET day_of_week == num_days_from_sunday(date.year, date.month, date.day)
        is_correct_day ==
            CASE w.field.kind = "Single" -> w.field.x = day_of_week
              [] w.field.kind = "Multiple" -> SeqContains(w.field.set, day_of_week)
              [] w.field.kind = "Range" ->
                    w.field.min <= day_of_week /\ w.field.max >= day_of_week
    IN  IF w.nth = 0 THEN is_correct_day
        ELSE IF date.day % 7 = 0
             THEN is_correct_day /\ w.nth = date.day \div 7
             ELSE is_correct_day /\ w.nth = (date.day \div 7) + 1

----------------------------------------------------------------------------
(* Expression::into_schedule, lib.rs 79-140 *)

Moment(y, mo, d, h, mi) == [year |-> y, month |-> mo, day |-> d, hour |-> h, minute |-> mi]

SeedOr(f, now) == IF f.kind = "None" THEN now ELSE seed(f)

\* a slip: the ticker of an unspecified field built with RangeTicker::new
IncrementOr_from_min(f, min, max, now) ==
    IF f.kind = "None" THEN RangeTicker_new(min, max) ELSE into_increment(f)

IncrementOr(f, min, max, now) ==
    IF f.kind = "None" THEN RangeTicker_with_current(min, max, now) ELSE into_increment(f)

into_schedule(e, now) ==
    [current |-> [minute |-> SeedOr(e.minute, now.minute),
                  hour |-> SeedOr(e.hour, now.hour),
                  day |-> SeedOr(e.dom, now.day),
                  month |-> SeedOr(e.month, now.month),
                  year |-> now.year],
     increment_minute |-> IncrementOr(e.minute, 0, 59, now.minute),
     increment_hour |-> IncrementOr(e.hour, 0, 23, now.hour),
     increment_dom |-> IncrementOr(e.dom, 1, 31, now.day),
     increment_month |-> IncrementOr(e.month, 1, 12, now.month),
     dow |-> e.dow]

----------------------------------------------------------------------------
(* Schedule, lib.rs 142-225 *)

\* Schedule::increment_minute .. increment_month: the Schedule after the
\* call (the returned must_increment is the ticker's carry).
increment_minute(s) ==
    LET r == Increment_next(s.increment_minute)
    IN  [s EXCEPT !.increment_minute = r.ticker, !.current.minute = r.value]

\* a slip: the hour ticker's value stored into the minute
increment_hour_slip(s) ==
    LET r == Increment_next(s.increment_hour)
    IN  [s EXCEPT !.increment_hour = r.ticker, !.current.minute = r.value]

increment_hour(s) ==
    LET r == Increment_next(s.increment_hour)
    IN  [s EXCEPT !.increment_hour = r.ticker, !.current.hour = r.value]

increment_dom(s) ==
    LET r == Increment_next(s.increment_dom)
    IN  [s EXCEPT !.increment_dom = r.ticker, !.current.day = r.value]

\* a slip: the month ticker's value stored into the day
increment_month_slip(s) ==
    LET r == Increment_next(s.increment_month)
    IN  [s EXCEPT !.increment_month = r.ticker, !.current.day = r.value]

increment_month(s) ==
    LET r == Increment_next(s.increment_month)
    IN  [s EXCEPT !.increment_month = r.ticker, !.current.month = r.value]

\* a slip: the hour ticker is called whether or not the minute carried
increment_date_eager(s) ==
    LET s1 == increment_minute(s)
        s2 == increment_hour(s1)
        s3 == increment_dom(s2)
        s4 == increment_month(s3)
    IN  IF ~Increment_next(s1.increment_hour).carry THEN s2
        ELSE IF ~Increment_next(s2.increment_dom).carry THEN s3
        ELSE IF ~Increment_next(s3.increment_month).carry THEN s4
        ELSE [s4 EXCEPT !.current.year = s4.current.year + 1]

\* Schedule::increment_date
increment_date(s) ==
    LET s1 == increment_minute(s)
        s2 == increment_hour(s1)
        s3 == increment_dom(s2)
        s4 == increment_month(s3)
    IN  IF ~Increment_next(s.increment_minute).carry THEN s1
        ELSE IF ~Increment_next(s1.increment_hour).carry THEN s2
        ELSE IF ~Increment_next(s2.increment_dom).carry THEN s3
        ELSE IF ~Increment_next(s3.increment_month).carry THEN s4
        ELSE [s4 EXCEPT !.current.year = s4.current.year + 1]

\* Some ticker called by increment_date returns None, so its unwrap panics
increment_panics(s) ==
    LET s1 == increment_minute(s)
        s2 == increment_hour(s1)
        s3 == increment_dom(s2)
        m == Increment_next(s.increment_minute)
        h == Increment_next(s1.increment_hour)
        d == Increment_next(s2.increment_dom)
        mo == Increment_next(s3.increment_month)
    IN  \/ ~m.some
        \/ m.carry /\ ~h.some
        \/ m.carry /\ h.carry /\ ~d.some
        \/ m.carry /\ h.carry /\ d.carry /\ ~mo.some

\* Some ticker called by increment_date increments its cursor past the u8 range
increment_overflows(s) ==
    LET s1 == increment_minute(s)
        s2 == increment_hour(s1)
        s3 == increment_dom(s2)
        m == Increment_next(s.increment_minute)
        h == Increment_next(s1.increment_hour)
        d == Increment_next(s2.increment_dom)
        mo == Increment_next(s3.increment_month)
    IN  \/ m.overflow
        \/ m.carry /\ h.overflow
        \/ m.carry /\ h.carry /\ d.overflow
        \/ m.carry /\ h.carry /\ d.carry /\ mo.overflow

\* Schedule::is_valid_weekday
is_valid_weekday(s, date) == IF s.dow.present THEN is_valid(s.dow, date) ELSE TRUE

\* a slip: LocalResult::None is not told apart from a date
accepted_unchecked(s, day) ==
    /\ DateGe(Date(s.current.year, s.current.month, s.current.day), day)
    /\ is_valid_weekday(s, Date(s.current.year, s.current.month, s.current.day))

\* a slip: a candidate dated today is turned down
accepted_after_today(s, day) ==
    /\ ymd_opt(s.current.year, s.current.month, s.current.day)
    /\ ~DateGe(day, Date(s.current.year, s.current.month, s.current.day))
    /\ is_valid_weekday(s, Date(s.current.year, s.current.month, s.current.day))

\* a slip: the candidate is not compared with the current day
accepted_any_day(s, day) ==
    /\ ymd_opt(s.current.year, s.current.month, s.current.day)
    /\ is_valid_weekday(s, Date(s.current.year, s.current.month, s.current.day))

\* The test of Schedule::next on the candidate left by increment_date
accepted(s, day) ==
    /\ ymd_opt(s.current.year, s.current.month, s.current.day)
    /\ DateGe(Date(s.current.year, s.current.month, s.current.day), day)
    /\ is_valid_weekday(s, Date(s.current.year, s.current.month, s.current.day))

\* candidate.and_hms(hour, minute, 0)
and_hms(s) ==
    Moment(s.current.year, s.current.month, s.current.day, s.current.hour, s.current.minute)

NoResult == Moment(0, 0, 0, 0, 0)

----------------------------------------------------------------------------
(* The Expressions and seeding moments the model is started from *)

Expression(minute, hour, dom, month, dow) ==
    [minute |-> minute, hour |-> hour, dom |-> dom, month |-> month, dow |-> dow]

\* examples/luck.rs: "0 17 13 * Fri"
LuckExpression ==
    Expression(Single(0), Single(17), Single(13), NoField, Weekday(Single(5), 0))

\* minute Single(30), everything else unspecified
HalfHourExpression == Expression(Single(30), NoField, NoField, NoField, NoWeekday)

MinuteFields == {NoField, Single(30), Range(10, 12), Multiple(<<0, 30>>)}
HourFields == {NoField, Single(17), Range(9, 10), Multiple(<<8, 20>>)}
DomFields == {NoField, Single(13), Single(31), Range(28, 31), Multiple(<<31, 1>>)}
MonthFields == {NoField, Single(2), Range(2, 4), Multiple(<<4, 2>>)}
Weekdays ==
    {NoWeekday, Weekday(Single(5), 0), Weekday(Single(5), 2),
     Weekday(Range(1, 5), 0), Weekday(Multiple(<<0, 6>>), 1)}

\* Expressions that leave the date to the clock and constrain the time of day
TimeExpressions ==
    {Expression(mi, h, NoField, NoField, NoWeekday) : mi \in MinuteFields, h \in HourFields}

\* Expressions that fix the time of day and constrain the date
DateExpressions ==
    {Expression(Single(30), Single(17), d, mo, w) :
        d \in DomFields, mo \in MonthFields, w \in Weekdays}

\* February 31 under several times of day
Feb31Expressions ==
    {Expression(mi, h, Single(31), Single(2), NoWeekday) :
        mi \in {Single(30), Multiple(<<0, 30>>), Range(10, 12)},
        h \in {NoField, Single(17)}}

\* Expressions that fix the minute and step the hour on every iteration of
\* the loop, so that no iteration leaves the Schedule as it was
HourlyExpressions ==
    {Expression(Single(30), NoField, d, mo, w) :
        d \in DomFields, mo \in MonthFields, w \in {NoWeekday, Weekday(Single(5), 0)}}

\* a day-of-month Range that ends at the largest u8
U8Expressions ==
    {Expression(Single(30), Single(17), Range(254, U8Max), mo, NoWeekday) :
        mo \in {NoField, Single(2)}}

\* Expressions stepped by the day or slower
DayExpressions ==
    DateExpressions \cup Feb31Expressions \cup U8Expressions \cup {LuckExpression}

\* Expressions stepped by the minute or the hour
ClockExpressions == TimeExpressions \cup {HalfHourExpression}

Moments ==
    {Moment(2024, 2, 28, 23, 58),     \* the eve of a leap day
     Moment(2024, 9, 13, 17, 30),     \* a Friday the 13th, after 17:00
     Moment(2024, 12, 31, 23, 59),    \* the last minute of a year
     Moment(2025, 4, 30, 10, 45),     \* the last day of a 30-day month
     Moment(2026, 2, 12, 9, 11)}      \* the eve of a Friday the 13th

\* the moments away from the end of a month: a Schedule stepped by the minute
\* replays a whole month once its day-of-month first wraps
MidMonthMoments == {now \in Moments : now.day < 29}

DateOf(now) == Date(now.year, now.month, now.day)

\* nothing handed to Weekday::is_valid
NoProbe == [w |-> NoWeekday, date |-> Date(0, 0, 0), done |-> FALSE, valid |-> FALSE]

NoYield == [some |-> FALSE, value |-> 0, carry |-> FALSE, overflow |-> FALSE]

\* a ticker whose call of next panicked
Panicked == [NoTicker EXCEPT !.kind = "Panicked"]

InitFrom(exprs, moments) ==
    /\ expr \in exprs
    /\ local \in moments
    /\ today = DateOf(local)
    /\ schedule = into_schedule(expr, local)
    /\ pc = "idle"
    /\ result = NoResult
    /\ calls = 0
    /\ ticker = NoTicker
    /\ ticks = 0
    /\ yielded = NoYield
    /\ probe = NoProbe

Init ==
    \/ InitFrom(DayExpressions, Moments)
    \/ InitFrom(ClockExpressions, MidMonthMoments)

----------------------------------------------------------------------------
(* Operations *)

\* The caller invokes Schedule::next
Call ==
    /\ pc = "idle"
    /\ calls < MaxCalls
    /\ pc' = "loop"
    /\ UNCHANGED <<expr, local, today, schedule, result, calls>>
    /\ UNCHANGED tickVars

\* One iteration of the loop of Schedule::next
Iterate ==
    /\ pc = "loop"
    /\ schedule.current.year <= MaxYear
    /\ \E checked \in (IF increment_overflows(schedule) THEN BOOLEAN ELSE {FALSE}) :
          IF increment_panics(schedule) \/ checked
          THEN /\ pc' = "panicked"
               /\ UNCHANGED <<schedule, result, calls>>
          ELSE /\ schedule' = increment_date(schedule)
               /\ IF accepted(schedule', today)
                  THEN /\ pc' = "idle"
                       /\ result' = and_hms(schedule')
                       /\ calls' = calls + 1
                  ELSE /\ pc' = "loop"
                       /\ UNCHANGED <<result, calls>>
    /\ UNCHANGED <<expr, local, today>>
    /\ UNCHANGED tickVars

\* Midnight passes on the wall clock
ClockTick ==
    /\ num_days_from_ce(today.year, today.month, today.day)
          < num_days_from_ce(local.year, local.month, local.day) + MaxClockDays
    /\ today' = Tomorrow(today)
    /\ UNCHANGED <<expr, local, schedule, pc, result, calls>>
    /\ UNCHANGED tickVars

Next == Call \/ Iterate \/ ClockTick

Spec == Init /\ [][Next]_vars

\* The loop of Schedule::next keeps running: an iteration that can be taken
\* is taken.
InitHourly == InitFrom(HourlyExpressions, Moments)

FairSpec == InitHourly /\ [][Next]_vars /\ WF_vars(Iterate)

----------------------------------------------------------------------------
(* A Value Ticker driven on its own *)

TickerFields ==
    {Single(0), Single(30), Single(59),
     Multiple(<<7>>), Multiple(<<0, 30>>), Multiple(<<15, 5, 45>>), Multiple(<<1, 1, 2>>),
     Range(0, 0), Range(10, 12), Range(0, 5), Range(28, 31), Range(58, 59),
     Range(253, 255), Range(0, 255), Range(255, 255)}

\* the tickers into_schedule builds for unspecified fields, with their cursors
\* at some current moment
SeededTickers ==
    {RangeTicker_with_current(0, 59, 57), RangeTicker_with_current(0, 23, 23),
     RangeTicker_with_current(1, 31, 30), RangeTicker_with_current(1, 12, 9),
     RangeTicker_with_current(0, 255, 252)}

InitTicker ==
    /\ expr = LuckExpression
    /\ local = Moment(2024, 9, 13, 17, 30)
    /\ today = DateOf(local)
    /\ schedule = into_schedule(expr, local)
    /\ pc = "idle"
    /\ result = NoResult
    /\ calls = 0
    /\ ticker \in {into_increment(f) : f \in TickerFields} \cup SeededTickers
    /\ ticks = 0
    /\ yielded = NoYield
    /\ probe = NoProbe

\* One call of Increment::next on the ticker
Tick ==
    /\ ticks < MaxTicks
    /\ ticker.kind # "Panicked"
    /\ LET r == Increment_next(ticker)
       IN  \E checked \in (IF r.overflow THEN BOOLEAN ELSE {FALSE}) :
              IF checked
              THEN /\ ticker' = Panicked
                   /\ yielded' = [NoYield EXCEPT !.overflow = TRUE]
              ELSE /\ ticker' = r.ticker
                   /\ yielded' = [some |-> r.some, value |-> r.value,
                                  carry |-> r.carry, overflow |-> r.overflow]
    /\ ticks' = ticks + 1
    /\ UNCHANGED schedVars
    /\ UNCHANGED probe

TickerSpec == InitTicker /\ [][Tick]_vars

----------------------------------------------------------------------------
(* Weekday::is_valid called on its own *)

ProbeFields ==
    {Single(d) : d \in 0..6}
        \cup {Range(1, 5), Range(0, 6), Range(3, 3), Range(5, 2)}
        \cup {Multiple(<<0, 6>>), Multiple(<<5>>), Multiple(<<2, 4, 2>>)}

\* every date of the years the seeding moments lie in
ProbeDates ==
    {date \in {Date(y, m, d) : y \in {now.year : now \in Moments},
                               m \in 1..12, d \in 1..31} :
        ymd_opt(date.year, date.month, date.day)}

InitProbe ==
    /\ expr = LuckExpression
    /\ local = Moment(2024, 9, 13, 17, 30)
    /\ today = DateOf(local)
    /\ schedule = into_schedule(expr, local)
    /\ pc = "idle"
    /\ result = NoResult
    /\ calls = 0
    /\ ticker = NoTicker
    /\ ticks = 0
    /\ yielded = NoYield
    /\ \E f \in ProbeFields, n \in 0..MaxNth, date \in ProbeDates :
          probe = [w |-> Weekday(f, n), date |-> date, done |-> FALSE, valid |-> FALSE]

\* One call of Weekday::is_valid
Validate ==
    /\ ~probe.done
    /\ probe' = [probe EXCEPT !.done = TRUE, !.valid = is_valid(probe.w, probe.date)]
    /\ UNCHANGED schedVars
    /\ UNCHANGED <<ticker, ticks, yielded>>

ProbeSpec == InitProbe /\ [][Validate]_vars

----------------------------------------------------------------------------
(* Time arithmetic used to state the claims *)

\* minutes since the start of the calendar
MinuteNumber(t) == num_days_from_ce(t.year, t.month, t.day) * 1440 + t.hour * 60 + t.minute

\* a is strictly earlier than b in (year, month, day, hour, minute) order
MomentLt(a, b) ==
    \/ a.year < b.year
    \/ a.year = b.year /\ a.month < b.month
    \/ a.year = b.year /\ a.month = b.month /\ a.day < b.day
    \/ a.year = b.year /\ a.month = b.month /\ a.day = b.day /\ a.hour < b.hour
    \/ a.year = b.year /\ a.month = b.month /\ a.day = b.day /\ a.hour = b.hour
          /\ a.minute < b.minute

\* this step is the return of a call of Schedule::next
Returns == calls' = calls + 1

\* the wall clock still shows the day the Schedule was seeded on
SameDay == today = DateOf(local)

----------------------------------------------------------------------------
(* Claims *)

\* C1: each timestamp returned by Schedule::next is strictly later, in
\* (year, month, day, hour, minute) order, than the one returned by the
\* preceding call on the same Schedule.
C1_StrictlyIncreasing ==
    [][(Returns /\ calls >= 1) => MomentLt(result, result')]_vars

\* C2: for "0 17 13 * Fri" the k-th result of Schedule::next is the k-th
\* moment of the reference cron evaluator: the k-th Friday the 13th at 17:00
\* that is not before the seeding moment.
LuckReference ==
    {Moment(y, m, 13, 17, 0) : y \in local.year..(MaxYear + 1), m \in 1..12}

LuckUpcoming ==
    {t \in LuckReference :
        /\ num_days_from_sunday(t.year, t.month, t.day) = 5
        /\ MinuteNumber(t) >= MinuteNumber(local)}

C2_LuckMatchesReference ==
    (expr = LuckExpression /\ calls >= 1 /\ SameDay) =>
        /\ result \in LuckUpcoming
        /\ Cardinality({t \in LuckUpcoming : MinuteNumber(t) <= MinuteNumber(result)}) = calls

\* C3: for minute Single(30) with everything else unspecified the k-th
\* result is the k-th HH:30 at or after the seeding moment, one per hour.
FirstHalfHour ==
    IF local.minute <= 30
    THEN MinuteNumber(local) - local.minute + 30
    ELSE MinuteNumber(local) - local.minute + 90

C3_HalfHourEveryHour ==
    (expr = HalfHourExpression /\ calls >= 1 /\ SameDay) =>
        /\ ymd_opt(result.year, result.month, result.day)
        /\ MinuteNumber(result) = FirstHalfHour + 60 * (calls - 1)

\* C4: the k-th call of next on a Multiple ticker over the list s of length
\* L returns s[(k-1) mod L], with mustCarry exactly on the calls that wrap
\* from the last element back to the first.
C4_SetTickerCycles ==
    (ticker.kind = "Multiple" /\ ticks >= 1) =>
        /\ yielded.some
        /\ yielded.value = VecGet(ticker.set, (ticks - 1) % Len(ticker.set))
        /\ yielded.carry = (ticks > 1 /\ (ticks - 1) % Len(ticker.set) = 0)

\* C5: a field given as Single(x) keeps the candidate's component at x in
\* every state of the Schedule, its ticker returns (x, true) and stays as it
\* is, and every returned timestamp has that field equal to x.
SingleHolds(f, component, returned, t) ==
    f.kind = "Single" =>
        /\ component = f.x
        /\ calls >= 1 => returned = f.x
        /\ Increment_next(t) = Yield(TRUE, f.x, TRUE, t)

C5_SingleFieldFixed ==
    /\ SingleHolds(expr.minute, schedule.current.minute, result.minute,
                   schedule.increment_minute)
    /\ SingleHolds(expr.hour, schedule.current.hour, result.hour, schedule.increment_hour)
    /\ SingleHolds(expr.dom, schedule.current.day, result.day, schedule.increment_dom)
    /\ SingleHolds(expr.month, schedule.current.month, result.month,
                   schedule.increment_month)

\* a second result with the Single minute, after the unspecified hour moved on
C5_Witness ==
    /\ expr.minute.kind = "Single"
    /\ expr.hour.kind = "None"
    /\ calls >= 2
    /\ result.minute = expr.minute.x
    /\ result.hour # local.hour

\* C6: for a minute Range(min, max) with every other field unspecified and
\* no weekday constraint, successive results that share year, month, day and
\* hour step the minute up by one: min..max in increasing order, each once.
OnlyMinuteRange(e) ==
    /\ e.minute.kind = "Range"
    /\ e.hour.kind = "None" /\ e.dom.kind = "None" /\ e.month.kind = "None"
    /\ ~e.dow.present

SameHour(a, b) ==
    a.year = b.year /\ a.month = b.month /\ a.day = b.day /\ a.hour = b.hour

C6_RangeCyclesOnce ==
    [][(OnlyMinuteRange(expr) /\ Returns /\ calls >= 1 /\ SameHour(result, result'))
          => result'.minute = result.minute + 1]_vars

\* C7: every returned timestamp is a date of the calendar: its month is
\* 1..12 and its day is at most the length of that month in that year, with
\* 29 days in February exactly in the leap years.
MonthLengths == <<31, 28, 31, 30, 31, 30, 31, 31, 30, 31, 30, 31>>

CalendarDays(y, m) ==
    IF m = 2 /\ (y % 400 = 0 \/ (y % 4 = 0 /\ y % 100 # 0)) THEN 29 ELSE MonthLengths[m]

C7_ResultIsCalendarDate ==
    calls >= 1 =>
        /\ result.month \in 1..12
        /\ result.day \in 1..CalendarDays(result.year, result.month)

\* the loop holds the discarded candidate February 30 after a result was returned
C7_Witness ==
    /\ calls >= 1
    /\ pc = "loop"
    /\ schedule.current.month = 2
    /\ schedule.current.day = 30

\* C8: under a Weekday Constraint every returned timestamp falls on a
\* weekday its field accepts, and with Nth(n) the date is the n-th day of
\* that weekday in its month.
ResultWeekday == num_days_from_sunday(result.year, result.month, result.day)

WeekdayAccepts(f, dw) ==
    \/ f.kind = "Single" /\ dw = f.x
    \/ f.kind = "Multiple" /\ dw \in {f.set[i] : i \in 1..Len(f.set)}
    \/ f.kind = "Range" /\ dw \in f.min..f.max

\* how many days of the result's month, up to the result, fall on its weekday
OccurrenceInMonth ==
    Cardinality({d \in 1..result.day :
        num_days_from_sunday(result.year, result.month, d) = ResultWeekday})

C8_ResultMatchesWeekday ==
    (calls >= 1 /\ expr.dow.present) =>
        /\ WeekdayAccepts(expr.dow.field, ResultWeekday)
        /\ expr.dow.nth # 0 => OccurrenceInMonth = expr.dow.nth

\* a second Friday of a month that falls on the 14th was returned
C8_Witness ==
    /\ calls >= 1
    /\ expr.dow.present
    /\ expr.dow.nth = 2
    /\ result.day = 14

\* C9: when the Expression admits a calendar-valid, weekday-matching date
\* that is not before today and lies in a year after the candidate's, within
\* the year horizon, the running call of Schedule::next eventually returns.
FieldAllows(f, v) ==
    \/ f.kind = "None"
    \/ f.kind = "Single" /\ v = f.x
    \/ f.kind = "Multiple" /\ v \in {f.set[i] : i \in 1..Len(f.set)}
    \/ f.kind = "Range" /\ v \in f.min..f.max

NthOfWeekday(d) == (d + 6) \div 7

Admits ==
    \E y \in (schedule.current.year + 1)..MaxYear, m \in 1..12, d \in 1..31 :
        /\ FieldAllows(expr.month, m)
        /\ FieldAllows(expr.dom, d)
        /\ d <= CalendarDays(y, m)
        /\ DateGe(Date(y, m, d), today)
        /\ expr.dow.present =>
              /\ WeekdayAccepts(expr.dow.field, num_days_from_sunday(y, m, d))
              /\ expr.dow.nth # 0 => NthOfWeekday(d) = expr.dow.nth

C9_EveryCallReturns == []((pc = "loop" /\ Admits) => <>(pc = "idle"))

\* C11: on a Single ticker, a Range ticker with min <= max (up to max = 255)
\* and a non-empty Multiple ticker, every call of next yields a pair: it is
\* never None, it never panics and its cursor increment never leaves u8.
WellFormed(t) ==
    \/ t.kind = "Single"
    \/ t.kind = "Range" /\ t.min <= t.max /\ t.max <= U8Max
    \/ t.kind = "Multiple" /\ Len(t.set) >= 1

C11_TickerNeverFails ==
    /\ ticker.kind # "Panicked"
    /\ (ticks >= 1 /\ WellFormed(ticker)) => (yielded.some /\ ~yielded.overflow)

\* C12: in one increment step the minute ticker is always called; the ticker
\* of a larger field is called exactly when every smaller field's ticker
\* returned mustCarry in that step; the year grows by one exactly when the
\* month ticker was called and returned mustCarry; the components and the
\* tickers above the first field that did not carry stay as they were.
IterateStep == pc = "loop" /\ today' = today /\ pc' # "panicked"

\* the ticker was called: it and its component hold what the call left
CalledStep(t, tAfter, componentAfter) ==
    /\ tAfter = Increment_next(t).ticker
    /\ componentAfter = Increment_next(t).value

\* the ticker was not called: it and its component are as before
LeftAlone(t, component, tAfter, componentAfter) ==
    tAfter = t /\ componentAfter = component

Rippled(called, t, component, tAfter, componentAfter) ==
    IF called THEN CalledStep(t, tAfter, componentAfter)
    ELSE LeftAlone(t, component, tAfter, componentAfter)

C12_RippleCarry ==
    [][IterateStep =>
        LET hourCalled == Increment_next(schedule.increment_minute).carry
            domCalled == hourCalled /\ Increment_next(schedule.increment_hour).carry
            monthCalled == domCalled /\ Increment_next(schedule.increment_dom).carry
            yearCarried == monthCalled /\ Increment_next(schedule.increment_month).carry
        IN  /\ CalledStep(schedule.increment_minute,
                          schedule'.increment_minute, schedule'.current.minute)
            /\ Rippled(hourCalled, schedule.increment_hour, schedule.current.hour,
                       schedule'.increment_hour, schedule'.current.hour)
            /\ Rippled(domCalled, schedule.increment_dom, schedule.current.day,
                       schedule'.increment_dom, schedule'.current.day)
            /\ Rippled(monthCalled, schedule.increment_month, schedule.current.month,
                       schedule'.increment_month, schedule'.current.month)
            /\ schedule'.current.year =
                  schedule.current.year + (IF yearCarried THEN 1 ELSE 0)
            /\ schedule'.dow = schedule.dow]_vars

\* the ticker of an unspecified month has wrapped and carried into the year,
\* and the candidate of that step was returned
C12_Witness ==
    /\ expr.month.kind = "None"
    /\ schedule.current.year = local.year + 1
    /\ schedule.increment_month.current = 2
    /\ calls >= 1
    /\ result.year = local.year + 1
    /\ result.month = 1

\* C13: when a field's ticker signals mustCarry in an increment step and the
\* next larger field is a range (unspecified, or Range with min < max), the
\* larger field's candidate value after the step differs from its value
\* before the step, also on the first carry into that field.  Stated for the
\* steps taken after a result was returned, whose candidate before the step
\* is one the Schedule has already tried.
IsRange(f) == f.kind = "None" \/ (f.kind = "Range" /\ f.min < f.max)

C13_CarryAdvances ==
    [][(IterateStep /\ calls >= 1) =>
        LET hourCalled == Increment_next(schedule.increment_minute).carry
            domCalled == hourCalled /\ Increment_next(schedule.increment_hour).carry
            monthCalled == domCalled /\ Increment_next(schedule.increment_dom).carry
        IN  /\ (hourCalled /\ IsRange(expr.hour)) =>
                  schedule'.current.hour # schedule.current.hour
            /\ (domCalled /\ IsRange(expr.dom)) =>
                  schedule'.current.day # schedule.current.day
            /\ (monthCalled /\ IsRange(expr.month)) =>
                  schedule'.current.month # schedule.current.month]_vars

\* C14: a call of next on a Range ticker whose cursor is within [min, max]
\* returns (current, false) and moves the cursor up by one; any other call
\* returns (min, true) and sets the cursor to min + 1.
C14_RangeTickerContract ==
    [][(ticker.kind = "Range" /\ ticks' = ticks + 1) =>
        IF ticker.min <= ticker.current /\ ticker.current <= ticker.max
        THEN /\ yielded'.some /\ yielded'.value = ticker.current /\ ~yielded'.carry
             /\ ticker'.current = ticker.current + 1
        ELSE /\ yielded'.some /\ yielded'.value = ticker.min /\ yielded'.carry
             /\ ticker'.current = ticker.min + 1]_vars

\* C15: Weekday::is_valid(date) is true exactly when the date's weekday
\* matches the field (Single: equal; Multiple: member; Range: within the
\* bounds) and, with Nth(n), n is the ceiling of day_of_month / 7.
CeilingOfSevenths(d) == CHOOSE k \in 0..5 : 7 * (k - 1) < d /\ d <= 7 * k

ProbeWeekday == num_days_from_sunday(probe.date.year, probe.date.month, probe.date.day)

C15_IsValidIffMatches ==
    probe.done =>
        (probe.valid <=>
            /\ WeekdayAccepts(probe.w.field, ProbeWeekday)
            /\ probe.w.nth # 0 => probe.w.nth = CeilingOfSevenths(probe.date.day))

\* the 28th was accepted as the fourth of its weekday, given as a Range
C15_Witness ==
    /\ probe.done
    /\ probe.valid
    /\ probe.w.field.kind = "Range"
    /\ probe.w.nth = 4
    /\ probe.date.day = 28

\* C16: a field the Expression leaves unspecified is seeded with the current
\* moment's value and gets the full-domain Range ticker (0-59, 0-23, 1-31,
\* 1-12) with its cursor at that value, so the first value the ticker yields
\* is not earlier than "now" in that field; with every field unspecified and
\* no weekday constraint the first call returns the seed moment, seconds 0.
SeededAtNow(f, component, t, min, max, now) ==
    f.kind = "None" =>
        /\ component = now
        /\ t.kind = "Range" /\ t.min = min /\ t.max = max /\ t.current = now

FirstYield(f, t, tAfter, componentAfter, now) ==
    (f.kind = "None" /\ t.current = now /\ tAfter # t) => componentAfter >= now

JustSeeded == pc = "idle" /\ calls = 0

AllUnspecified == expr = Expression(NoField, NoField, NoField, NoField, NoWeekday)

DayNumber(date) == num_days_from_ce(date.year, date.month, date.day)

CandidateAfter == Date(schedule'.current.year, schedule'.current.month, schedule'.current.day)

C17_AcceptanceTest ==
    [][IterateStep =>
        /\ Returns =>
              /\ DateOf(result') = CandidateAfter
              /\ DayNumber(DateOf(result')) >= DayNumber(today)
              /\ expr.dow.present =>
                    /\ WeekdayAccepts(expr.dow.field,
                           DayNumber(CandidateAfter) % 7)
                    /\ expr.dow.nth # 0 =>
                           expr.dow.nth = NthOfWeekday(CandidateAfter.day)
        /\ DayNumber(CandidateAfter) < DayNumber(today) =>
              /\ ~Returns
              /\ pc' = "loop"
              /\ result' = result]_vars

\* midnight passed before the first call: every candidate of the seeding day
\* was rejected and the first minute of the current day was returned
C17_Witness ==
    /\ AllUnspecified
    /\ ~SameDay
    /\ calls = 1
    /\ DateOf(result) = today
    /\ result.hour = 0
    /\ result.minute = 0

\* C18: the acceptance test compares dates only, so Schedule::next can return
\* a timestamp of the current day that is earlier than the current clock
\* time: with minute Single(m), m below the current minute, and every other
\* field unspecified, the first call made on the seeding day returns the
\* seeding hour at minute m, a moment before the seeding moment.
MinuteOnly ==
    /\ expr.minute.kind = "Single"
    /\ expr.hour.kind = "None" /\ expr.dom.kind = "None" /\ expr.month.kind = "None"
    /\ ~expr.dow.present

C18_SameDayGap ==
    [][(Returns /\ calls = 0 /\ SameDay /\ MinuteOnly /\ expr.minute.x < local.minute) =>
          /\ result' = [local EXCEPT !.minute = expr.minute.x]
          /\ MinuteNumber(result') < MinuteNumber(local)]_vars

\* a result of the current day that lies before the moment of seeding, hence
\* before the moment of the call
C18_Witness ==
    /\ MinuteOnly
    /\ SameDay
    /\ calls = 1
    /\ DateOf(result) = today
    /\ MomentLt(result, local)

\* C19: no matching moment is skipped; in particular, with minute, hour,
\* day-of-month and month all Single and that date of the seed year still in
\* the future, the first returned occurrence is in the seed year, not in the
\* following year.
AllSingle ==
    /\ expr.minute.kind = "Single" /\ expr.hour.kind = "Single"
    /\ expr.dom.kind = "Single" /\ expr.month.kind = "Single"

SeedYearOccurrence ==
    Moment(local.year, expr.month.x, expr.dom.x, expr.hour.x, expr.minute.x)

OccurrenceMatches(t) ==
    /\ t.day <= CalendarDays(t.year, t.month)
    /\ expr.dow.present =>
          /\ WeekdayAccepts(expr.dow.field, DayNumber(DateOf(t)) % 7)
          /\ expr.dow.nth # 0 => expr.dow.nth = NthOfWeekday(t.day)

C19_SeedYearNotSkipped ==
    (/\ AllSingle
     /\ calls = 1
     /\ OccurrenceMatches(SeedYearOccurrence)
     /\ MinuteNumber(SeedYearOccurrence) >= MinuteNumber(local)
     /\ DayNumber(DateOf(SeedYearOccurrence)) >= DayNumber(today))
        => result.year = local.year

\* C20: after seeding and after any number of increment steps each candidate
\* component lies in the values its field allows (the Single value, a member
\* of the Multiple list, within [min, max] of a Range, the full domain when
\* unspecified), every RangeTicker cursor satisfies min <= current <= max + 1,
\* and the candidate's year is never below the seed year and never decreases.
ComponentAllowed(f, component, min, max) ==
    CASE f.kind = "None" -> min <= component /\ component <= max
      [] f.kind = "Single" -> component = f.x
      [] f.kind = "Multiple" -> \E i \in 1..Len(f.set) : component = f.set[i]
      [] f.kind = "Range" -> f.min <= component /\ component <= f.max

CursorInRange(t) == t.kind = "Range" => (t.min <= t.current /\ t.current <= t.max + 1)

ScheduleInvariant(s) ==
    /\ ComponentAllowed(expr.minute, s.current.minute, 0, 59)
    /\ ComponentAllowed(expr.hour, s.current.hour, 0, 23)
    /\ ComponentAllowed(expr.dom, s.current.day, 1, 31)
    /\ ComponentAllowed(expr.month, s.current.month, 1, 12)
    /\ CursorInRange(s.increment_minute)
    /\ CursorInRange(s.increment_hour)
    /\ CursorInRange(s.increment_dom)
    /\ CursorInRange(s.increment_month)
    /\ s.current.year >= local.year

C20_ScheduleInvariant ==
    /\ ScheduleInvariant(schedule)
    /\ [][/\ ScheduleInvariant(schedule')
          /\ schedule'.current.year >= schedule.current.year]_vars

\* C10: with day-of-month Single(31) and month Single(2) no call of
\* Schedule::next ever returns: no candidate is accepted, nothing panics,
\* and the next iteration of the loop rejects again.
IsFeb31(e) == e.dom = Single(31) /\ e.month = Single(2)

C10_Feb31NeverReturns ==
    IsFeb31(expr) =>
        /\ calls = 0
        /\ result = NoResult
        /\ pc \in {"idle", "loop"}
        /\ ~increment_panics(schedule)
        /\ ~accepted(increment_date(schedule), today)

\* the loop has rejected its way into a later year
C10_Witness ==
    /\ IsFeb31(expr)
    /\ pc = "loop"
    /\ schedule.current.year > local.year
    /\ calls = 0

====
